---- MODULE Spec2Model ----
(***************************************************************************)
(* Model of the submission staging pipeline of il-management: the          *)
(* register_statistic form handler (submit), the approve and reject        *)
(* handlers of the main and of the staff blueprint, and the tables they    *)
(* write (temporary_session, session, participation, session_metrics),     *)
(* and of the queries over those tables: compute_person_totals,            *)
(* compute_effectiveness, compute_normalized_distance and the staff        *)
(* leaderboard.                                                            *)
(*                                                                         *)
(* Every handler runs in one database transaction; a commit either makes   *)
(* all the rows added since the last commit visible or, after rollback,    *)
(* none of them.                                                           *)
(***************************************************************************)
EXTENDS Integers, Sequences, FiniteSets, TLC

(***************************************************************************)
(* Bounds of the model.                                                    *)
(***************************************************************************)
MaxSubmissions == 1
MaxSessions == 2
MaxDirect == 1
MaxDay == 3
MaxLed == 2
MaxGuests == 32
MaxTotal == 3
MaxBoard == 3
MaxLimit == 2
MaxCriteria == 2

(***************************************************************************)
(* The person table. Sign-up is outside the model: the table is fixed.     *)
(***************************************************************************)
PersonIds == {"L1", "L2", "S1", "A1"}

RoleEnum == {"leader", "staff", "admin"}

ParticipationRoleEnum == {"LEADER", "REGISTRATION_EXPERT", "ROOM_CAPTAIN"}

Person ==
    [p \in PersonIds |->
        [role |-> CASE p \in {"L1", "L2"} -> "leader"
                    [] p = "S1" -> "staff"
                    [] OTHER -> "admin"]]

VARIABLES
    temporary_session,  \* sequence of TemporarySession rows, the id is the index
    session,            \* sequence of Session rows, the id is the index
    participation,      \* set of Participation rows
    session_metrics,    \* set of SessionMetrics rows
    session_source,     \* per Session: the TemporarySession id it was built from, 0 if none
    now,                \* datetime.utcnow()
    resp,               \* the last request and its response
    req,                \* per request worker: the approve request it is serving
    criteria_table      \* set of Criteria rows

vars == <<temporary_session, session, participation, session_metrics,
          session_source, now, resp, req, criteria_table>>

tables == <<temporary_session, session, participation, session_metrics, session_source>>

authoritative == <<session, participation, session_metrics, session_source>>

(***************************************************************************)
(* The register-statistic form.                                            *)
(* A DateField holds <<>> when no date was entered, else <<day>>.          *)
(***************************************************************************)
BaseForm ==
    [date |-> <<1>>, location |-> "Hall A", notes |-> "",
     participants |-> <<"L1", "L2">>, room_captain_id |-> "",
     guests_count |-> 2, registrations_count |-> 1]

CountInputs == {-1, 0, 1, 2}

\* the (guests_count, registrations_count) pairs posted: each count alone over
\* CountInputs, and the pairs where both are 0, both negative, or 1 < 2
CountPairs ==
    {<<g, BaseForm.registrations_count>> : g \in CountInputs}
    \cup {<<BaseForm.guests_count, r>> : r \in CountInputs}
    \cup {<<0, 0>>, <<-1, -1>>, <<1, 2>>}

ParticipantInputs == {<<>>, <<"A1">>}

RoomCaptainInputs == {"A1"}

\* the forms posted to register_statistic: BaseForm with one input changed
Forms ==
    {[BaseForm EXCEPT !.guests_count = c[1], !.registrations_count = c[2]] :
        c \in CountPairs}
    \cup {[BaseForm EXCEPT !.participants = ps] : ps \in ParticipantInputs}
    \cup {[BaseForm EXCEPT !.room_captain_id = rc] : rc \in RoomCaptainInputs}
    \cup {[BaseForm EXCEPT !.date = <<>>], [BaseForm EXCEPT !.location = ""]}

\* the forms posted while approvals and rejections go on
StagedForms == {BaseForm, [BaseForm EXCEPT !.participants = <<"S1", "S1">>]}

\* wtforms DataRequired: the field's data is truthy
DataRequired(data) == data # 0

\* NumberRange without its lower bound
NumberRange_unbounded(data) == TRUE

\* wtforms NumberRange(min=0)
NumberRange(data) == data >= 0

\* the people offered in the participants and room captain dropdowns
all_people == {p \in PersonIds : Person[p].role \in {"leader", "staff"}}

\* RegisterStatisticForm.validate_registrations_count
validate_registrations_count(form) ==
    ~(form.registrations_count > form.guests_count)

\* a form validation without the validators of the two counts
validate_on_submit_no_counts(form) ==
    /\ form.date # <<>>
    /\ form.location # ""
    /\ form.participants # <<>>
    /\ \A i \in 1..Len(form.participants) : form.participants[i] \in all_people
    /\ form.room_captain_id \in {""} \cup all_people

\* form.validate_on_submit()
validate_on_submit(form) ==
    /\ form.date # <<>>
    /\ form.location # ""
    /\ form.participants # <<>>
    /\ \A i \in 1..Len(form.participants) : form.participants[i] \in all_people
    /\ form.room_captain_id \in {""} \cup all_people
    /\ DataRequired(form.guests_count) /\ NumberRange(form.guests_count)
    /\ DataRequired(form.registrations_count) /\ NumberRange(form.registrations_count)
    /\ validate_registrations_count(form)

\* date.isoformat() and datetime.fromisoformat(): a date and its ISO text
isoformat(d) == <<"iso", d>>

fromisoformat(s) == s[2]

\* `x or None` on a string
NULL == "NULL"

OrNone(s) == IF s = "" THEN NULL ELSE s

\* the JSON payload staged for a leader's form
SessionData(form) ==
    [date |-> isoformat(form.date[1]),
     location |-> form.location,
     notes |-> OrNone(form.notes),
     participants |-> form.participants,
     room_captain_id |-> form.room_captain_id,
     guests_count |-> form.guests_count,
     registrations_count |-> form.registrations_count]

(***************************************************************************)
(* Rows and constraints.                                                   *)
(***************************************************************************)
Range(s) == {s[i] : i \in 1..Len(s)}

\* uq_participation_session_person_role over the rows of one flush
UniqueParticipation(rows) ==
    \A i, j \in 1..Len(rows) : rows[i] = rows[j] => i = j

\* the CHECK constraints of session_metrics
MetricsConstraints(m) ==
    /\ m.guests_count >= 0
    /\ m.registrations_count >= 0
    /\ m.registrations_count <= m.guests_count

NoResp ==
    [op |-> "none", endpoint |-> "none", id |-> 0, actor |-> "none",
     pre |-> "none", result |-> "none", form |-> BaseForm]

Idle == [pc |-> "idle", id |-> 0, actor |-> "none", pre |-> "none", result |-> "none"]

Workers == {"w1", "w2"}

Init ==
    /\ temporary_session = <<>>
    /\ session = <<>>
    /\ participation = {}
    /\ session_metrics = {}
    /\ session_source = <<>>
    /\ now = 1
    /\ resp = NoResp
    /\ req = [w \in Workers |-> Idle]
    /\ criteria_table = {}

(***************************************************************************)
(* register_statistic: the form handler behind submit().                   *)
(***************************************************************************)
Respond(op, endpoint, id, actor, pre, result, form) ==
    resp' = [op |-> op, endpoint |-> endpoint, id |-> id, actor |-> actor,
             pre |-> pre, result |-> result, form |-> form]

\* the participants other than the leader, as REGISTRATION_EXPERT rows
ExpertRows(participants, leader_id, sid) ==
    LET others == SelectSeq(participants, LAMBDA p : p # leader_id)
    IN  [i \in 1..Len(others) |->
            [session_id |-> sid, person_id |-> others[i], role |-> "REGISTRATION_EXPERT"]]

LeaderRow(leader_id, sid) ==
    [session_id |-> sid, person_id |-> leader_id, role |-> "LEADER"]

\* a staged row attributed to the first listed participant
StageSubmission_first_participant(actor, form) ==
    [session_data |-> SessionData(form), submitted_by |-> form.participants[1],
     submitted_at |-> now, status |-> "pending"]

\* the TemporarySession a LEADER's valid form is staged as
StageSubmission(actor, form) ==
    [session_data |-> SessionData(form), submitted_by |-> actor,
     submitted_at |-> now, status |-> "pending"]

\* the rows a STAFF user's valid form is registered as
DirectSession(actor, form) ==
    [date |-> form.date[1], location |-> form.location, notes |-> OrNone(form.notes),
     created_by |-> actor, created_at |-> now]

DirectLeader(actor, form) ==
    IF form.room_captain_id # "" THEN form.room_captain_id ELSE actor

\* a direct registration that adds only the REGISTRATION_EXPERT rows
DirectParticipations_no_leader(actor, form, sid) ==
    ExpertRows(form.participants, DirectLeader(actor, form), sid)

DirectParticipations(actor, form, sid) ==
    <<LeaderRow(DirectLeader(actor, form), sid)>>
        \o ExpertRows(form.participants, DirectLeader(actor, form), sid)

DirectMetrics(actor, form, sid) ==
    [session_id |-> sid,
     guests_count |-> form.guests_count,
     registrations_count |-> form.registrations_count,
     room_captain_id |-> OrNone(form.room_captain_id),
     submitted_by |-> actor, submitted_at |-> now]

CommitOutcomes == {"commit", "db_error"}

register_statistic(actor, form) ==
    LET role == Person[actor].role
        sid == Len(session) + 1
        parts == DirectParticipations(actor, form, sid)
        metrics == DirectMetrics(actor, form, sid)
        accepted == validate_on_submit(form)
                        /\ ~(form.registrations_count > form.guests_count)
    IN  /\ (accepted /\ role = "leader") => Len(temporary_session) < MaxSubmissions
        /\ (accepted /\ role = "staff") =>
                /\ Len(session) < MaxSessions
                /\ Cardinality({i \in DOMAIN session : session_source[i] = 0}) < MaxDirect
        /\ UNCHANGED <<req, criteria_table>>
        /\ IF ~accepted
           THEN /\ Respond("submit", "main", 0, actor, "none", "ValidationError", form)
                /\ UNCHANGED <<tables, now>>
           ELSE IF role = "leader"
           THEN \E commit \in CommitOutcomes :
                IF commit = "commit"
                THEN /\ temporary_session' =
                            Append(temporary_session, StageSubmission(actor, form))
                     /\ now' = now + 1
                     /\ Respond("submit", "main", Len(temporary_session) + 1, actor,
                                "none", "ok", form)
                     /\ UNCHANGED authoritative
                ELSE /\ Respond("submit", "main", 0, actor, "none", "error", form)
                     /\ UNCHANGED <<tables, now>>
           ELSE IF role = "staff"
           THEN \E commit \in CommitOutcomes :
                IF commit = "commit" /\ UniqueParticipation(parts)
                        /\ MetricsConstraints(metrics)
                THEN /\ session' = Append(session, DirectSession(actor, form))
                     /\ participation' = participation \cup Range(parts)
                     /\ session_metrics' = session_metrics \cup {metrics}
                     /\ session_source' = Append(session_source, 0)
                     /\ now' = now + 1
                     /\ Respond("submit", "main", 0, actor, "none", "ok", form)
                     /\ UNCHANGED temporary_session
                ELSE /\ Respond("submit", "main", 0, actor, "none", "error", form)
                     /\ UNCHANGED <<tables, now>>
           ELSE /\ Respond("submit", "main", 0, actor, "none", "no_action", form)
                /\ UNCHANGED <<tables, now>>

(***************************************************************************)
(* approve and reject.                                                     *)
(***************************************************************************)
\* the ids a request may name: every staged row and one id that does not exist
StatisticIds == 1..(Len(temporary_session) + 1)

NotFound(id) == id \notin DOMAIN temporary_session

\* a Session stamped with the time of the approval
ApproveSession_approved_at(statistic) ==
    [date |-> fromisoformat(statistic.session_data.date),
     location |-> statistic.session_data.location,
     notes |-> statistic.session_data.notes,
     created_by |-> statistic.submitted_by,
     created_at |-> now]

ApproveSession(statistic) ==
    [date |-> fromisoformat(statistic.session_data.date),
     location |-> statistic.session_data.location,
     notes |-> statistic.session_data.notes,
     created_by |-> statistic.submitted_by,
     created_at |-> statistic.submitted_at]

\* every listed participant entered as a LEADER of the session
ApproveParticipations_all_leaders(statistic, sid) ==
    <<LeaderRow(statistic.submitted_by, sid)>>
        \o [i \in 1..Len(ExpertRows(statistic.session_data.participants,
                                    statistic.submitted_by, sid)) |->
                LeaderRow(ExpertRows(statistic.session_data.participants,
                                     statistic.submitted_by, sid)[i].person_id, sid)]

ApproveParticipations(statistic, sid) ==
    <<LeaderRow(statistic.submitted_by, sid)>>
        \o ExpertRows(statistic.session_data.participants, statistic.submitted_by, sid)

ApproveMetrics(statistic, sid) ==
    [session_id |-> sid,
     guests_count |-> statistic.session_data.guests_count,
     registrations_count |-> statistic.session_data.registrations_count,
     room_captain_id |-> OrNone(statistic.session_data.room_captain_id),
     submitted_by |-> statistic.submitted_by,
     submitted_at |-> statistic.submitted_at]

\* the flush of approve's transaction passes the constraints of the schema
ApproveFlushes(statistic) ==
    /\ UniqueParticipation(ApproveParticipations(statistic, Len(session) + 1))
    /\ MetricsConstraints(ApproveMetrics(statistic, Len(session) + 1))

\* the flush passes the constraints and the commit succeeds
ApproveCommits(statistic, commit) ==
    /\ commit = "commit"
    /\ ApproveFlushes(statistic)

\* the exception `except Exception as e` catches, shown in the flash message
ApproveFailure(statistic) ==
    IF ApproveFlushes(statistic) THEN "error" ELSE "IntegrityError"

\* the UPDATE the unit of work emits for `statistic.status = value`: none when
\* the loaded row already holds the value
SetStatus(id, statistic, value) ==
    IF statistic.status = value
    THEN temporary_session
    ELSE [temporary_session EXCEPT ![id].status = value]

\* the writes of main.approve's transaction, for the row as it was loaded
ApproveWrites(id, statistic) ==
    LET sid == Len(session) + 1
    IN  /\ session' = Append(session, ApproveSession(statistic))
        /\ participation' = participation \cup Range(ApproveParticipations(statistic, sid))
        /\ session_metrics' = session_metrics \cup {ApproveMetrics(statistic, sid)}
        /\ session_source' = Append(session_source, id)
        /\ temporary_session' = SetStatus(id, statistic, "approved")

\* main.approve, served without interleaving
approve_main(id, actor, commit) ==
    /\ Len(session) < MaxSessions
    /\ UNCHANGED <<now, req, criteria_table>>
    /\ IF NotFound(id)
       THEN /\ Respond("approve", "main", id, actor, "none", "NotFound", BaseForm)
            /\ UNCHANGED tables
       ELSE LET statistic == temporary_session[id]
            IN  IF ApproveCommits(statistic, commit)
                THEN /\ ApproveWrites(id, statistic)
                     /\ Respond("approve", "main", id, actor, statistic.status, "ok", BaseForm)
                ELSE /\ UNCHANGED tables
                     /\ Respond("approve", "main", id, actor, statistic.status,
                                ApproveFailure(statistic), BaseForm)

\* staff.approve: the status flip is committed, then the audit row is committed
approve_staff(id, actor, commit, audit) ==
    /\ UNCHANGED <<now, req, criteria_table, authoritative>>
    /\ IF NotFound(id)
       THEN /\ Respond("approve", "staff", id, actor, "none", "NotFound", BaseForm)
            /\ UNCHANGED temporary_session
       ELSE LET statistic == temporary_session[id]
            IN  IF commit = "commit"
                THEN /\ temporary_session' = SetStatus(id, statistic, "approved")
                     /\ Respond("approve", "staff", id, actor, statistic.status,
                                IF audit = "commit" THEN "ok" ELSE "error", BaseForm)
                ELSE /\ UNCHANGED temporary_session
                     /\ Respond("approve", "staff", id, actor, statistic.status, "error", BaseForm)

\* main.reject
reject_main(id, actor, commit) ==
    /\ UNCHANGED <<now, req, criteria_table, authoritative>>
    /\ IF NotFound(id)
       THEN /\ Respond("reject", "main", id, actor, "none", "NotFound", BaseForm)
            /\ UNCHANGED temporary_session
       ELSE LET statistic == temporary_session[id]
            IN  IF commit = "commit"
                THEN /\ temporary_session' = SetStatus(id, statistic, "rejected")
                     /\ Respond("reject", "main", id, actor, statistic.status, "ok", BaseForm)
                ELSE /\ UNCHANGED temporary_session
                     /\ Respond("reject", "main", id, actor, statistic.status, "error", BaseForm)

\* staff.reject: the status flip is committed, then the audit row is committed
reject_staff(id, actor, commit, audit) ==
    /\ UNCHANGED <<now, req, criteria_table, authoritative>>
    /\ IF NotFound(id)
       THEN /\ Respond("reject", "staff", id, actor, "none", "NotFound", BaseForm)
            /\ UNCHANGED temporary_session
       ELSE LET statistic == temporary_session[id]
            IN  IF commit = "commit"
                THEN /\ temporary_session' = SetStatus(id, statistic, "rejected")
                     /\ Respond("reject", "staff", id, actor, statistic.status,
                                IF audit = "commit" THEN "ok" ELSE "error", BaseForm)
                ELSE /\ UNCHANGED temporary_session
                     /\ Respond("reject", "staff", id, actor, statistic.status, "error", BaseForm)

Next ==
    \/ \E actor \in PersonIds, form \in StagedForms :
            register_statistic(actor, form)
    \/ \E id \in StatisticIds, actor \in PersonIds, commit \in CommitOutcomes :
            approve_main(id, actor, commit)
    \/ \E id \in StatisticIds, actor \in PersonIds, commit, audit \in CommitOutcomes :
            approve_staff(id, actor, commit, audit)
    \/ \E id \in StatisticIds, actor \in PersonIds, commit \in CommitOutcomes :
            reject_main(id, actor, commit)
    \/ \E id \in StatisticIds, actor \in PersonIds, commit, audit \in CommitOutcomes :
            reject_staff(id, actor, commit, audit)

Spec == Init /\ [][Next]_vars

\* register_statistic alone, over every form
NextSubmit ==
    \E actor \in PersonIds, form \in Forms :
        register_statistic(actor, form)

SpecSubmit == Init /\ [][NextSubmit]_vars

(***************************************************************************)
(* main.approve served by concurrent request workers. Each worker has its  *)
(* own unit of work: the row it loaded, the rows it added, and nothing of  *)
(* it is visible to the others before its commit.                          *)
(***************************************************************************)
Leaders == {p \in PersonIds : Person[p].role = "leader"}

\* the staff users who open the inbox
Approvers == {p \in PersonIds : Person[p].role = "staff"}

\* the pipeline after one leader staged one form
InitConc ==
    /\ \E actor \in Leaders, form \in StagedForms :
            temporary_session =
                <<[session_data |-> SessionData(form), submitted_by |-> actor,
                   submitted_at |-> 1, status |-> "pending"]>>
    /\ session = <<>>
    /\ participation = {}
    /\ session_metrics = {}
    /\ session_source = <<>>
    /\ now = 2
    /\ resp = NoResp
    /\ req = [w \in Workers |-> Idle]
    /\ criteria_table = {}

InFlight == {w \in Workers : req[w].pc \in {"loaded", "added"}}

\* statistic = TemporarySession.query.get_or_404(id)
approve_load(w, id, actor) ==
    /\ req[w].pc \in {"idle", "done"}
    /\ Len(session) + Cardinality(InFlight) < MaxSessions
    /\ req' = [req EXCEPT ![w] =
                IF NotFound(id)
                THEN [pc |-> "done", id |-> id, actor |-> actor,
                      pre |-> "none", result |-> "NotFound"]
                ELSE [pc |-> "loaded", id |-> id, actor |-> actor,
                      pre |-> temporary_session[id].status, result |-> "none"]]
    /\ UNCHANGED <<tables, now, resp, criteria_table>>

\* the db.session.add() calls and `statistic.status = 'approved'`
approve_add(w) ==
    /\ req[w].pc = "loaded"
    /\ req' = [req EXCEPT ![w].pc = "added"]
    /\ UNCHANGED <<tables, now, resp, criteria_table>>

\* the row a worker holds: the immutable columns as staged, the status as loaded
Loaded(w) == [temporary_session[req[w].id] EXCEPT !.status = req[w].pre]

\* a commit whose failure path keeps the status flip instead of rolling back
approve_commit_no_rollback(w, commit) ==
    /\ req[w].pc = "added"
    /\ UNCHANGED <<now, resp, criteria_table>>
    /\ IF ApproveCommits(Loaded(w), commit)
       THEN /\ ApproveWrites(req[w].id, Loaded(w))
            /\ req' = [req EXCEPT ![w].pc = "done", ![w].result = "ok"]
       ELSE /\ temporary_session' = SetStatus(req[w].id, Loaded(w), "approved")
            /\ UNCHANGED authoritative
            /\ req' = [req EXCEPT ![w].pc = "done",
                                   ![w].result = ApproveFailure(Loaded(w))]

\* db.session.commit(), or db.session.rollback() when the flush or the commit fails
approve_commit(w, commit) ==
    /\ req[w].pc = "added"
    /\ UNCHANGED <<now, resp, criteria_table>>
    /\ IF ApproveCommits(Loaded(w), commit)
       THEN /\ ApproveWrites(req[w].id, Loaded(w))
            /\ req' = [req EXCEPT ![w].pc = "done", ![w].result = "ok"]
       ELSE /\ UNCHANGED tables
            /\ req' = [req EXCEPT ![w].pc = "done",
                                   ![w].result = ApproveFailure(Loaded(w))]

NextConc ==
    \/ \E w \in Workers, id \in StatisticIds, actor \in Approvers :
            approve_load(w, id, actor)
    \/ \E w \in Workers : approve_add(w)
    \/ \E w \in Workers, commit \in CommitOutcomes : approve_commit(w, commit)
    \/ \E id \in DOMAIN temporary_session, actor \in Approvers, commit \in CommitOutcomes :
            reject_main(id, actor, commit)

SpecConc == InitConc /\ [][NextConc]_vars

(***************************************************************************)
(* main.approve and main.reject over every participant list a leader can   *)
(* stage: one or two selectable people, in any order, repeated or not.     *)
(***************************************************************************)
ParticipantLists ==
    {<<p>> : p \in all_people} \cup {<<p, q>> : p, q \in all_people}

ApproveForms ==
    {[BaseForm EXCEPT !.participants = ps, !.guests_count = g] :
        ps \in ParticipantLists, g \in {1, 2}}

\* the pipeline after one leader staged one form at time 1
InitApprove ==
    /\ \E actor \in Leaders, form \in ApproveForms :
            temporary_session =
                <<[session_data |-> SessionData(form), submitted_by |-> actor,
                   submitted_at |-> 1, status |-> "pending"]>>
    /\ session = <<>>
    /\ participation = {}
    /\ session_metrics = {}
    /\ session_source = <<>>
    /\ now = 2
    /\ resp = NoResp
    /\ req = [w \in Workers |-> Idle]
    /\ criteria_table = {}

NextApprove ==
    \/ \E id \in DOMAIN temporary_session, actor \in PersonIds, commit \in CommitOutcomes :
            approve_main(id, actor, commit)
    \/ \E id \in DOMAIN temporary_session, actor \in PersonIds, commit \in CommitOutcomes :
            reject_main(id, actor, commit)

SpecApprove == InitApprove /\ [][NextApprove]_vars

(***************************************************************************)
(* The two write paths of the authoritative tables, registration by staff  *)
(* and approval of a leader's submission, over forms with and without a    *)
(* room captain and with counts the form must refuse.                      *)
(***************************************************************************)
WriteForms ==
    {BaseForm,
     [BaseForm EXCEPT !.room_captain_id = "L2"],
     [BaseForm EXCEPT !.room_captain_id = "S1"],
     [BaseForm EXCEPT !.guests_count = 1, !.registrations_count = 2],
     [BaseForm EXCEPT !.guests_count = -1, !.registrations_count = -1]}

NextWrite ==
    \/ \E actor \in PersonIds, form \in WriteForms :
            register_statistic(actor, form)
    \/ \E id \in DOMAIN temporary_session, actor \in Approvers, commit \in CommitOutcomes :
            approve_main(id, actor, commit)

SpecWrite == Init /\ [][NextWrite]_vars

(***************************************************************************)
(* Metrics primitives and aggregation (services.py). A Decimal with two    *)
(* places is its number of hundredths: 12.50 is 1250.                      *)
(***************************************************************************)
\* num/den rounded to an integer, ties away from zero
quantize_half_up(num, den) ==
    IF 2 * (num % den) >= den THEN (num \div den) + 1 ELSE num \div den

\* Decimal.quantize under the default context, whose rounding is
\* ROUND_HALF_EVEN: num/den rounded to an integer, ties to the even neighbour
quantize(num, den) ==
    LET q == num \div den
        twice == 2 * (num % den)
    IN  IF twice > den THEN q + 1
        ELSE IF twice < den THEN q
        ELSE IF q % 2 = 0 THEN q ELSE q + 1

\* (Decimal(r) / Decimal(g) * 100).quantize(Decimal('0.01')), in hundredths
compute_effectiveness(total_guests, total_registrations) ==
    IF total_guests = 0
    THEN 0
    ELSE quantize(total_registrations * 10000, total_guests)

RECURSIVE Sum(_, _)
\* func.sum(SessionMetrics.<col>) over joined rows, 0 where SQL gives NULL
\* for no row and Python turns it into 0 with `or 0`
Sum(rows, col) ==
    IF rows = {}
    THEN 0
    ELSE LET row == CHOOSE x \in rows : TRUE
         IN  row.metrics[col] + Sum(rows \ {row}, col)

\* date filters that leave out the sessions held on the bounds themselves
DateFilter_exclusive(day, date_from, date_to) ==
    /\ date_from # <<>> => day > date_from[1]
    /\ date_to # <<>> => day < date_to[1]

\* `if date_from: query.filter(Session.date >= date_from)`, same for date_to;
\* an absent bound is <<>>, a given one <<day>>
DateFilter(day, date_from, date_to) ==
    /\ date_from # <<>> => day >= date_from[1]
    /\ date_to # <<>> => day <= date_to[1]

\* Session JOIN Participation JOIN SessionMetrics, filtered on the person as
\* LEADER and on the dates
LeaderJoin(sessions, participations, metrics, person_id, date_from, date_to) ==
    {[session_id |-> p.session_id, participation |-> p, metrics |-> m] :
        <<p, m>> \in
            {pm \in participations \X metrics :
                /\ pm[1].session_id \in DOMAIN sessions
                /\ pm[2].session_id = pm[1].session_id
                /\ pm[1].person_id = person_id
                /\ pm[1].role = "LEADER"
                /\ DateFilter(sessions[pm[1].session_id].date, date_from, date_to)}}

\* compute_person_totals over given tables
person_totals(sessions, participations, metrics, person_id, date_from, date_to) ==
    LET rows == LeaderJoin(sessions, participations, metrics, person_id, date_from, date_to)
        total_guests == Sum(rows, "guests_count")
        total_registrations == Sum(rows, "registrations_count")
    IN  [total_guests |-> total_guests,
         total_registrations |-> total_registrations,
         effectiveness_pct |-> compute_effectiveness(total_guests, total_registrations),
         sessions_led_count |-> Cardinality({row.session_id : row \in rows})]

compute_person_totals(person_id, date_from, date_to) ==
    person_totals(session, participation, session_metrics, person_id, date_from, date_to)

(***************************************************************************)
(* compute_person_totals queried over a database of sessions led by L1 or  *)
(* L2, the other leader taking part as REGISTRATION_EXPERT. A seed is one  *)
(* session: its date, its leader and its counts.                           *)
(***************************************************************************)
Days == 1..MaxDay

SeedSession(seed) ==
    [date |-> seed.date, location |-> BaseForm.location, notes |-> NULL,
     created_by |-> seed.leader, created_at |-> 1]

SeedMetrics(seed, sid) ==
    [session_id |-> sid, guests_count |-> seed.guests_count,
     registrations_count |-> seed.registrations_count, room_captain_id |-> NULL,
     submitted_by |-> seed.leader, submitted_at |-> 1]

\* the tables holding one session per seed
SeedTables(seeds) ==
    /\ temporary_session = <<>>
    /\ session = [i \in DOMAIN seeds |-> SeedSession(seeds[i])]
    /\ participation =
            UNION {{LeaderRow(seeds[i].leader, i)}
                   \cup Range(ExpertRows(seeds[i].experts, seeds[i].leader, i)) :
                        i \in DOMAIN seeds}
    /\ session_metrics = {SeedMetrics(seeds[i], i) : i \in DOMAIN seeds}
    /\ session_source = [i \in DOMAIN seeds |-> 0]
    /\ now = 2
    /\ resp = NoResp
    /\ req = [w \in Workers |-> Idle]

TotalsSeeds ==
    {[date |-> d, leader |-> l, experts |-> <<"L1", "L2">>,
      guests_count |-> c[1], registrations_count |-> c[2]] :
        d \in Days, l \in Leaders, c \in {<<2, 1>>, <<3, 3>>}}

InitTotals ==
    /\ \E n \in 0..MaxLed : \E seeds \in [1..n -> TotalsSeeds] : SeedTables(seeds)
    /\ criteria_table = {}

\* an optional date argument
DateArgs == {<<>>} \cup {<<d>> : d \in Days}

\* a call of compute_person_totals; it writes nothing, so one call per
\* behaviour shows all there is
person_totals_request(person_id, date_from, date_to) ==
    /\ resp = NoResp
    /\ resp' = [op |-> "person_totals", person_id |-> person_id,
                date_from |-> date_from, date_to |-> date_to,
                result |-> compute_person_totals(person_id, date_from, date_to)]
    /\ UNCHANGED <<tables, now, req, criteria_table>>

NextTotals ==
    \E person_id \in PersonIds, date_from, date_to \in DateArgs :
        person_totals_request(person_id, date_from, date_to)

SpecTotals == InitTotals /\ [][NextTotals]_vars

(***************************************************************************)
(* staff.leaderboard. The database is one session per day, each led by L1, *)
(* L2 or S1 with L1 as REGISTRATION_EXPERT wherever L1 does not lead; a    *)
(* session may have no guest at all (guests_count >= 0 is the schema's     *)
(* constraint). A query without ORDER BY, and ties under ORDER BY, return  *)
(* their rows in any order.                                                *)
(***************************************************************************)
\* Person.region
Region ==
    [p \in PersonIds |-> IF p \in {"L1", "S1"} THEN "north" ELSE "south"]

BoardSeeds ==
    {[leader |-> l, guests_count |-> c[1], registrations_count |-> c[2]] :
        l \in all_people, c \in {<<0, 0>>, <<2, 1>>, <<2, 2>>}}

InitBoard ==
    /\ \E n \in 0..MaxBoard : \E seeds \in [1..n -> BoardSeeds] :
           SeedTables([i \in 1..n |->
                           [date |-> i, leader |-> seeds[i].leader, experts |-> <<"L1">>,
                            guests_count |-> seeds[i].guests_count,
                            registrations_count |-> seeds[i].registrations_count]])
    /\ criteria_table = {}

\* the grouped rows: one per person of the region with a LEADER Participation
\* in a session within the dates, with the sums of that person's sessions
BoardGroups(region, date_from, date_to) ==
    {[person_id |-> p, region |-> Region[p],
      total_guests |->
        Sum(LeaderJoin(session, participation, session_metrics, p, date_from, date_to),
            "guests_count"),
      total_registrations |->
        Sum(LeaderJoin(session, participation, session_metrics, p, date_from, date_to),
            "registrations_count")] :
        p \in {q \in PersonIds :
                /\ region # "" => Region[q] = region
                /\ LeaderJoin(session, participation, session_metrics,
                              q, date_from, date_to) # {}}}

\* the dict built for a row
BoardEntry(row) ==
    [person_id |-> row.person_id, region |-> row.region,
     total_guests |-> row.total_guests,
     total_registrations |-> row.total_registrations,
     effectiveness_pct |-> compute_effectiveness(row.total_guests, row.total_registrations)]

\* the orders in which the database may return a set of rows
Orderings(rows) ==
    {f \in [1..Cardinality(rows) -> rows] :
        \A i, j \in 1..Cardinality(rows) : f[i] = f[j] => i = j}

\* query.order_by(desc(col)): rows with equal sums in any order
OrderBy(rows, col) ==
    {f \in Orderings(rows) : \A i \in 1..(Len(f) - 1) : f[i][col] >= f[i + 1][col]}

\* query.limit(n), and the slice [:n]
Limit(rows, n) ==
    SubSeq(rows, 1, IF n < Len(rows) THEN n ELSE Len(rows))

\* a query without its HAVING clause
Having_nothing(rows) == rows

\* query.having(func.sum(SessionMetrics.guests_count) > 0)
Having(rows) == {row \in rows : row.total_guests > 0}

\* list.sort(key=effectiveness_pct, reverse=True): stable, equal keys keep
\* the order they were fetched in
SortByEffectiveness(entries) ==
    LET n == Len(entries)
        perm == CHOOSE f \in [1..n -> 1..n] :
                    /\ \A i, j \in 1..n : f[i] = f[j] => i = j
                    /\ \A i, j \in 1..n :
                        i < j =>
                            \/ entries[f[i]].effectiveness_pct > entries[f[j]].effectiveness_pct
                            \/ /\ entries[f[i]].effectiveness_pct = entries[f[j]].effectiveness_pct
                               /\ f[i] < f[j]
    IN  [i \in 1..n |-> entries[perm[i]]]

Entries(rows) == [i \in 1..Len(rows) |-> BoardEntry(rows[i])]

\* an unknown metric ranked like the default one, registrations
InvalidMetric_default_ordering(groups, limit) ==
    {[status |-> 200, key |-> "leaderboard_data", rows |-> Entries(Limit(rows, limit))] :
        rows \in OrderBy(groups, "total_registrations")}

\* the `else` of the metric chain: 400 and an error message, no query is run
InvalidMetric(groups, limit) ==
    {[status |-> 400, key |-> "error", rows |-> <<>>]}

\* the responses staff.leaderboard may give
leaderboard(metric, limit, region, date_from, date_to) ==
    LET groups == BoardGroups(region, date_from, date_to)
    IN  CASE metric = "registrations" ->
                {[status |-> 200, key |-> "leaderboard_data",
                  rows |-> Entries(Limit(rows, limit))] :
                    rows \in OrderBy(groups, "total_registrations")}
          [] metric = "guests" ->
                {[status |-> 200, key |-> "leaderboard_data",
                  rows |-> Entries(Limit(rows, limit))] :
                    rows \in OrderBy(groups, "total_guests")}
          [] metric = "effectiveness" ->
                {[status |-> 200, key |-> "leaderboard",
                  rows |-> Limit(SortByEffectiveness(Entries(Limit(rows, limit * 2))), limit)] :
                    rows \in Orderings(Having(groups))}
          [] OTHER -> InvalidMetric(groups, limit)

MetricArgs == {"registrations", "guests", "effectiveness", "sessions"}

leaderboard_request(metric, limit, region, date_from, date_to) ==
    /\ resp = NoResp
    /\ \E result \in leaderboard(metric, limit, region, date_from, date_to) :
            resp' = [op |-> "leaderboard", metric |-> metric, limit |-> limit,
                     region |-> region, date_from |-> date_from, date_to |-> date_to,
                     result |-> result]
    /\ UNCHANGED <<tables, now, req, criteria_table>>

\* the limit main.leaderboard passes to the API
PageLimit == 50

\* the leaderboard_data main.leaderboard hands to its template
PageData(response) ==
    IF response.status >= 400 THEN <<>>
    ELSE IF response.key = "leaderboard_data" THEN response.rows
    ELSE <<>>

\* main.leaderboard: the page calls the API with its own arguments
leaderboard_page(metric, region, date_from, date_to) ==
    /\ resp = NoResp
    /\ \E result \in leaderboard(metric, PageLimit, region, date_from, date_to) :
            resp' = [op |-> "leaderboard_page", metric |-> metric, limit |-> PageLimit,
                     region |-> region, date_from |-> date_from, date_to |-> date_to,
                     result |-> result, leaderboard_data |-> PageData(result)]
    /\ UNCHANGED <<tables, now, req, criteria_table>>

NextBoard ==
    \/ \E metric \in MetricArgs, limit \in 1..MaxLimit, region \in {"", "north"},
          date_from \in {<<>>, <<2>>}, date_to \in {<<>>, <<2>>} :
            leaderboard_request(metric, limit, region, date_from, date_to)
    \/ \E metric \in MetricArgs, region \in {"", "north"},
          date_from \in {<<>>, <<2>>}, date_to \in {<<>>, <<2>>} :
            leaderboard_page(metric, region, date_from, date_to)

SpecBoard == InitBoard /\ [][NextBoard]_vars

(***************************************************************************)
(* compute_normalized_distance. A number is a record of its Python type    *)
(* and its value as the fraction num/den; an optional column is <<>> when  *)
(* NULL and <<value>> otherwise, and so is the criteria row itself.        *)
(***************************************************************************)
None == [type |-> "None"]

TypeError == [type |-> "TypeError"]

\* `target is not None` and `target > 0`, for every value of the column
Counted_present(target) == target # <<>>

\* `target is not None` and `target > 0`
Counted(target) == target # <<>> /\ target[1] > 0

\* abs(actual - target) / target: a float for two ints, a Decimal for two Decimals
Diff(actual, target, type) ==
    [type |-> IF type = "int" THEN "float" ELSE "Decimal",
     num |-> IF actual >= target THEN actual - target ELSE target - actual,
     den |-> target]

\* distance += diff: Decimal + Decimal is a Decimal, Decimal + float raises
\* TypeError, which ends the function
Add(distance, diff) ==
    IF distance.type = "TypeError" \/ diff.type = "float"
    THEN TypeError
    ELSE [type |-> "Decimal",
          num |-> distance.num * diff.den + diff.num * distance.den,
          den |-> distance.den * diff.den]

\* one of the three `if criteria_row.<target> is not None:` blocks
Accumulate(distance, target, actual, type) ==
    IF Counted(target) THEN Add(distance, Diff(actual, target[1], type)) ELSE distance

compute_normalized_distance(totals, criteria_row) ==
    IF criteria_row = <<>>
    THEN None
    ELSE LET criteria == criteria_row[1]
             guests == Accumulate([type |-> "Decimal", num |-> 0, den |-> 1],
                                  criteria.guests_target, totals.total_guests, "int")
             registrations == Accumulate(guests, criteria.registrations_target,
                                         totals.total_registrations, "int")
             distance == Accumulate(registrations, criteria.effectiveness_target_pct,
                                    totals.effectiveness_pct, "Decimal")
             weights == Cardinality({t \in {"guests_target", "registrations_target",
                                            "effectiveness_target_pct"} :
                                        Counted(criteria[t])})
         IN  IF distance.type = "TypeError" THEN TypeError
             ELSE IF weights = 0 THEN None
             ELSE [type |-> "float", num |-> distance.num, den |-> distance.den * weights]

\* the totals compute_person_totals returns for g guests and r registrations
TotalsInputs ==
    {[total_guests |-> g, total_registrations |-> r,
      effectiveness_pct |-> compute_effectiveness(g, r),
      sessions_led_count |-> IF g = 0 THEN 0 ELSE 1] :
        <<g, r>> \in {gr \in (0..MaxTotal) \X (0..MaxTotal) : gr[2] <= gr[1]}}

\* no criteria row, or a row whose targets are NULL, 0 or positive
CriteriaInputs ==
    {<<>>}
    \cup {<<[guests_target |-> g, registrations_target |-> r,
             effectiveness_target_pct |-> e]>> :
            g \in {<<>>, <<0>>, <<2>>}, r \in {<<>>, <<0>>, <<1>>},
            e \in {<<>>, <<0>>, <<5000>>}}

normalized_distance_request(totals, criteria_row) ==
    /\ resp = NoResp
    /\ resp' = [op |-> "normalized_distance", totals |-> totals,
                criteria_row |-> criteria_row,
                result |-> compute_normalized_distance(totals, criteria_row)]
    /\ UNCHANGED <<tables, now, req, criteria_table>>

NextDistance ==
    \E totals \in TotalsInputs, criteria_row \in CriteriaInputs :
        normalized_distance_request(totals, criteria_row)

SpecDistance == Init /\ [][NextDistance]_vars

(***************************************************************************)
(* compute_effectiveness called with every pair of small totals, and with  *)
(* 800 guests.                                                             *)
(***************************************************************************)
EffectivenessGuests == (0..MaxGuests) \cup {800}

effectiveness_request(total_guests, total_registrations) ==
    /\ resp = NoResp
    /\ resp' = [op |-> "effectiveness", total_guests |-> total_guests,
                total_registrations |-> total_registrations,
                result |-> compute_effectiveness(total_guests, total_registrations)]
    /\ UNCHANGED <<tables, now, req, criteria_table>>

NextEffectiveness ==
    \E total_guests \in EffectivenessGuests, total_registrations \in 0..MaxGuests :
        effectiveness_request(total_guests, total_registrations)

SpecEffectiveness == Init /\ [][NextEffectiveness]_vars

(***************************************************************************)
(* staff.get_people with filter=close_to_target. A Criteria row holds the  *)
(* person it is scoped to (NULL for the global row), its three optional    *)
(* targets and its created_at.                                             *)
(***************************************************************************)
CriteriaTargets ==
    {[guests_target |-> g, effectiveness_target_pct |-> e] :
        <<g, e>> \in {<<<<>>, <<0>>>>, <<<<>>, <<5000>>>>, <<<<>>, <<10000>>>>,
                      <<<<2>>, <<>>>>}}

CriteriaRows ==
    {[person_id |-> p, guests_target |-> t.guests_target, registrations_target |-> <<>>,
      effectiveness_target_pct |-> t.effectiveness_target_pct, created_at |-> c] :
        p \in {NULL} \cup Leaders, t \in CriteriaTargets, c \in 1..MaxCriteria}

PeopleSeeds ==
    {[date |-> 1, leader |-> l, experts |-> <<>>,
      guests_count |-> 2, registrations_count |-> r] : l \in Leaders, r \in {1, 2}}

\* at most one session, and up to MaxCriteria Criteria rows
InitPeople ==
    /\ \E n \in 0..1 : \E seeds \in [1..n -> PeopleSeeds] : SeedTables(seeds)
    /\ \E n \in 0..MaxCriteria : \E rows \in [1..n -> CriteriaRows] :
            criteria_table = Range(rows)

\* Criteria.query.filter(or_(person_id == person.id, person_id IS NULL))
\*     .order_by(Criteria.person_id.desc()).first()
\* PostgreSQL sorts NULL before every value under DESC, and rows with the
\* same person_id in any order; <<>> is None, <<row>> a row
ResolveCriteria(person_id) ==
    LET candidates == {c \in criteria_table : c.person_id = person_id \/ c.person_id = NULL}
        nulls == {c \in candidates : c.person_id = NULL}
    IN  IF candidates = {} THEN {<<>>}
        ELSE IF nulls # {} THEN {<<c>> : c \in nulls}
        ELSE {<<c>> : c \in candidates}

\* Person.query.filter(Person.role == RoleEnum.LEADER), filtered on the region
RegionLeaders(region) ==
    {p \in PersonIds : Person[p].role = "leader" /\ (region # "" => Region[p] = region)}

\* people_with_distance.sort(key=distance): stable, ascending
SortByDistance(items) ==
    LET n == Len(items)
        less(a, b) == a.distance.num * b.distance.den < b.distance.num * a.distance.den
        perm == CHOOSE f \in [1..n -> 1..n] :
                    /\ \A i, j \in 1..n : f[i] = f[j] => i = j
                    /\ \A i, j \in 1..n :
                        i < j => \/ less(items[f[i]], items[f[j]])
                                 \/ /\ ~less(items[f[j]], items[f[i]])
                                    /\ f[i] < f[j]
    IN  [i \in 1..n |-> items[perm[i]]]

\* the response for one order of `people` and one resolved row per person;
\* an exception of compute_normalized_distance is not caught: 500
close_to_target(people, used, limit) ==
    LET item(p) ==
            [person_id |-> p, region |-> Region[p],
             totals |-> compute_person_totals(p, <<>>, <<>>),
             distance |-> compute_normalized_distance(
                            compute_person_totals(p, <<>>, <<>>), used[p])]
        items == [i \in 1..Len(people) |-> item(people[i])]
    IN  IF \E i \in 1..Len(items) : items[i].distance = TypeError
        THEN [status |-> 500, people |-> <<>>, used |-> used]
        ELSE [status |-> 200,
              people |-> Limit(SortByDistance(
                            SelectSeq(items, LAMBDA it : it.distance # None)), limit),
              used |-> used]

\* the responses get_people may give
get_people(region, limit) ==
    {close_to_target(people, used, limit) :
        people \in Orderings(RegionLeaders(region)),
        used \in {u \in [RegionLeaders(region) -> {<<>>} \cup {<<c>> : c \in criteria_table}] :
                    \A p \in RegionLeaders(region) : u[p] \in ResolveCriteria(p)}}

close_to_target_request(region, limit) ==
    /\ resp = NoResp
    /\ \E result \in get_people(region, limit) :
            resp' = [op |-> "close_to_target", region |-> region, limit |-> limit,
                     result |-> result]
    /\ UNCHANGED <<tables, now, req, criteria_table>>

NextPeople ==
    \E region \in {"", "north"}, limit \in 1..MaxLimit :
        close_to_target_request(region, limit)

SpecPeople == InitPeople /\ [][NextPeople]_vars

(***************************************************************************)
(* Properties of the staging pipeline.                                     *)
(***************************************************************************)
Terminal == {"approved", "rejected"}

\* the authoritative sessions built from staged submission id
SessionsFrom(id) == {i \in DOMAIN session : session_source[i] = id}

MetricsOf(sid) == {m \in session_metrics : m.session_id = sid}

Failures == {"error", "IntegrityError"}

\* the request reached the handler's database work and its transaction did not fail
Served(r) == r.pre # "none" /\ r.result \notin Failures

\* C1: approve() on a submission whose status is already approved fails with
\* InvalidState and leaves the Session, Participation and SessionMetrics rows
\* exactly as they were, through either approve endpoint.
C1_ApproveApprovedIsInvalidState ==
    [][(resp'.op = "approve" /\ resp'.pre = "approved" /\ Served(resp'))
            => (resp'.result = "InvalidState" /\ UNCHANGED authoritative)]_vars

\* C2: of two approve() calls that both loaded the same submission while it
\* was pending, exactly one succeeds, the other fails with InvalidState, and
\* exactly one Session exists for the submission afterwards.
C2_ConcurrentApproveOnce ==
    \A w1, w2 \in Workers :
        (/\ w1 # w2
         /\ req[w1].pc = "done" /\ req[w2].pc = "done"
         /\ req[w1].id = req[w2].id
         /\ req[w1].pre = "pending" /\ req[w2].pre = "pending"
         /\ req[w1].result \notin Failures /\ req[w2].result \notin Failures)
            => /\ {req[w1].result, req[w2].result} = {"ok", "InvalidState"}
               /\ Cardinality(SessionsFrom(req[w1].id)) = 1

\* C3: approved and rejected are terminal: no step changes the status of a
\* submission that is approved or rejected.
C3_TerminalStatus ==
    [][\A id \in DOMAIN temporary_session :
            temporary_session[id].status \in Terminal
                => temporary_session'[id].status = temporary_session[id].status]_vars

\* C4: every approved submission has exactly one Session, with exactly one
\* SessionMetrics row, built from it, and no Session is built from a
\* submission that is pending or rejected.
C4_ApprovedIffOneSession ==
    /\ \A id \in DOMAIN temporary_session :
            temporary_session[id].status = "approved"
                => /\ Cardinality(SessionsFrom(id)) = 1
                   /\ \A sid \in SessionsFrom(id) : Cardinality(MetricsOf(sid)) = 1
    /\ \A sid \in DOMAIN session :
            session_source[sid] # 0
                => temporary_session[session_source[sid]].status = "approved"

C6_RejectTerminalIsInvalidState ==
    (resp.op = "reject" /\ resp.pre \in Terminal /\ Served(resp))
        => resp.result = "InvalidState"

\* C7: approve() and reject() by a LEADER fail with AuthorizationError and
\* change neither the status nor an authoritative row.
C7_LeaderCannotDecide ==
    [][(/\ resp'.op \in {"approve", "reject"}
        /\ Person[resp'.actor].role = "leader"
        /\ Served(resp'))
            => (resp'.result = "AuthorizationError" /\ UNCHANGED tables)]_vars

\* C8: submit() with registrations_count > guests_count, or with a negative
\* count, fails with ValidationError and leaves the staging table and the
\* authoritative tables as they were.
C8_InvalidCountsRejected ==
    [][(/\ resp'.op = "submit"
        /\ \/ resp'.form.registrations_count > resp'.form.guests_count
           \/ resp'.form.registrations_count < 0
           \/ resp'.form.guests_count < 0)
            => (resp'.result = "ValidationError" /\ UNCHANGED tables)]_vars

\* a form whose only fault is registrations_count > guests_count was refused
C8_Witness ==
    /\ resp.op = "submit"
    /\ resp.form = [BaseForm EXCEPT !.guests_count = 1, !.registrations_count = 2]
    /\ resp.result = "ValidationError"

\* C9: a successful submit() by a leader appends exactly one PendingSubmission,
\* pending and submitted by the submitter, keeps the rows staged before, and
\* leaves the authoritative tables unchanged.
C9_SubmitStagesOnly ==
    [][(resp'.op = "submit" /\ resp'.result = "ok" /\ Person[resp'.actor].role = "leader")
            => LET n == Len(temporary_session)
               IN  /\ Len(temporary_session') = n + 1
                   /\ SubSeq(temporary_session', 1, n) = temporary_session
                   /\ temporary_session'[n + 1].status = "pending"
                   /\ temporary_session'[n + 1].submitted_by = resp'.actor
                   /\ UNCHANGED authoritative]_vars

\* leader L2 staged a form that lists L1 first
C9_Witness ==
    /\ resp.op = "submit" /\ resp.result = "ok" /\ resp.actor = "L2"
    /\ resp.id \in DOMAIN temporary_session
    /\ temporary_session[resp.id].status = "pending"
    /\ temporary_session[resp.id].submitted_by = "L2"
    /\ temporary_session[resp.id].session_data.participants[1] = "L1"

\* C10: submit() never refuses as invalid a form with a date, a location, a
\* non-empty list of selectable participants and 0 <= registrations_count <=
\* guests_count, the counts 0 included.
C10_InRangeCountsAccepted ==
    (/\ resp.op = "submit"
     /\ resp.form.date # <<>>
     /\ resp.form.location # ""
     /\ resp.form.participants # <<>>
     /\ Range(resp.form.participants) \subseteq all_people
     /\ resp.form.room_captain_id \in {""} \cup all_people
     /\ 0 <= resp.form.registrations_count
     /\ resp.form.registrations_count <= resp.form.guests_count)
        => resp.result # "ValidationError"

\* C11: main.approve of a pending submission, unless the database itself
\* fails, succeeds and adds exactly the LEADER Participation of the submitter
\* and one REGISTRATION_EXPERT Participation for every other distinct person
\* of the participant list, the submitter never as REGISTRATION_EXPERT.
C11_ApproveParticipations ==
    [][(/\ resp'.op = "approve" /\ resp'.endpoint = "main"
        /\ resp'.pre = "pending" /\ resp'.result # "error")
            => LET statistic == temporary_session[resp'.id]
                   sid == Len(session) + 1
                   listed == Range(statistic.session_data.participants)
               IN  /\ resp'.result = "ok"
                   /\ participation' \ participation =
                        {LeaderRow(statistic.submitted_by, sid)}
                        \cup {[session_id |-> sid, person_id |-> p,
                               role |-> "REGISTRATION_EXPERT"] :
                                    p \in listed \ {statistic.submitted_by}}]_vars

\* C12: the Session and the SessionMetrics row a successful main.approve
\* creates carry the submitter in created_by and submitted_by and the
\* submission's submitted_at in created_at and submitted_at, whoever approves
\* and whenever.
C12_ApproveProvenance ==
    [][(resp'.op = "approve" /\ resp'.endpoint = "main" /\ resp'.result = "ok")
            => LET statistic == temporary_session[resp'.id]
                   sid == Len(session) + 1
               IN  /\ Len(session') = sid
                   /\ session'[sid].created_by = statistic.submitted_by
                   /\ session'[sid].created_at = statistic.submitted_at
                   /\ \E m \in session_metrics' : m.session_id = sid
                   /\ \A m \in session_metrics' :
                        m.session_id = sid
                            => /\ m.submitted_by = statistic.submitted_by
                               /\ m.submitted_at = statistic.submitted_at]_vars

\* staff user S1 approved, at time 2, what a leader submitted at time 1
C12_Witness ==
    /\ resp.op = "approve" /\ resp.endpoint = "main" /\ resp.result = "ok"
    /\ resp.actor = "S1" /\ now = 2
    /\ Len(session) = 1
    /\ session[1].created_by = temporary_session[resp.id].submitted_by
    /\ session[1].created_by \in Leaders
    /\ session[1].created_at = 1
    /\ \E m \in session_metrics :
            m.session_id = 1 /\ m.submitted_by = session[1].created_by /\ m.submitted_at = 1

\* C13: reject() on a pending submission sets it to rejected and leaves the
\* authoritative tables as they were, and no later step builds a Session (the
\* rows personTotals and the leaderboard sum) from a submission that is
\* rejected and has none.
C13_RejectedNeverCounts ==
    [][/\ (resp'.op = "reject" /\ resp'.pre = "pending" /\ Served(resp'))
            => /\ temporary_session'[resp'.id].status = "rejected"
               /\ UNCHANGED authoritative
       /\ \A id \in DOMAIN temporary_session :
            (temporary_session[id].status = "rejected" /\ SessionsFrom(id) = {})
                => {i \in DOMAIN session' : session_source'[i] = id} = {}]_vars

Qualifying(person_id, date_from, date_to) ==
    {i \in DOMAIN session :
        /\ LeaderRow(person_id, i) \in participation
        /\ \A d \in Range(date_from) : d <= session[i].date
        /\ \A d \in Range(date_to) : session[i].date <= d}

RECURSIVE SessionSum(_, _)
\* the sum, over a set of sessions, of a column of each session's metrics row
SessionSum(sids, col) ==
    IF sids = {}
    THEN 0
    ELSE LET sid == CHOOSE i \in sids : TRUE
         IN  (CHOOSE m \in MetricsOf(sid) : TRUE)[col] + SessionSum(sids \ {sid}, col)

\* C15: personTotals(personId, dateFrom, dateTo) returns the sums of guests
\* and registrations and the number of the sessions that have a LEADER
\* Participation of personId and a date within the optional, inclusive
\* bounds; the effectiveness is that of the two sums; with no such session
\* the result is {0, 0, 0.00, 0}.
C15_PersonTotals ==
    resp.op = "person_totals"
        => LET sids == Qualifying(resp.person_id, resp.date_from, resp.date_to)
           IN  /\ resp.result.total_guests = SessionSum(sids, "guests_count")
               /\ resp.result.total_registrations = SessionSum(sids, "registrations_count")
               /\ resp.result.sessions_led_count = Cardinality(sids)
               /\ resp.result.effectiveness_pct =
                    compute_effectiveness(resp.result.total_guests,
                                          resp.result.total_registrations)
               /\ sids = {}
                    => resp.result = [total_guests |-> 0, total_registrations |-> 0,
                                      effectiveness_pct |-> 0, sessions_led_count |-> 0]

\* L1 led a session on day 1 and one on day 2; asked for day 2 to day 2, the
\* totals are those of the second session alone
C15_Witness ==
    /\ resp.op = "person_totals" /\ resp.person_id = "L1"
    /\ resp.date_from = <<2>> /\ resp.date_to = <<2>>
    /\ Len(session) = 2
    /\ session[1].date = 1 /\ session[2].date = 2
    /\ LeaderRow("L1", 1) \in participation /\ LeaderRow("L1", 2) \in participation
    /\ resp.result.sessions_led_count = 1
    /\ resp.result.total_guests = (CHOOSE m \in MetricsOf(2) : TRUE).guests_count

\* C16: effectiveness(guests, registrations) is 0.00 whenever guests is 0,
\* and for guests >= registrations >= 0 with guests > 0 it is
\* registrations / guests * 100 rounded to two places with ties rounded up.
C16_EffectivenessHalfUp ==
    resp.op = "effectiveness"
        => /\ resp.total_guests = 0 => resp.result = 0
           /\ (resp.total_guests > 0 /\ resp.total_guests >= resp.total_registrations)
                => resp.result =
                    quantize_half_up(resp.total_registrations * 10000, resp.total_guests)

\* the targets of a criteria row that are present and positive
PositiveTargets(criteria) ==
    {t \in DOMAIN criteria : criteria[t] # <<>> /\ criteria[t][1] > 0}

\* C17: for a criteria row, normalizedDistance returns no value exactly when
\* none of guests_target, registrations_target and effectiveness_target_pct
\* is present and positive, whatever the totals.
C17_NoValueIffNoPositiveTarget ==
    (resp.op = "normalized_distance" /\ resp.criteria_row # <<>>)
        => (resp.result = None <=> PositiveTargets(resp.criteria_row[1]) = {})

\* a person with guests and registrations, measured against a criteria row
\* whose targets are 0, NULL and 0: no value
C17_Witness ==
    /\ resp.op = "normalized_distance"
    /\ resp.totals.total_guests = 2 /\ resp.totals.total_registrations = 1
    /\ resp.criteria_row =
            <<[guests_target |-> <<0>>, registrations_target |-> <<>>,
               effectiveness_target_pct |-> <<0>>]>>
    /\ resp.result = None

\* the total a target is measured against
ActualOf(totals, t) ==
    CASE t = "guests_target" -> totals.total_guests
      [] t = "registrations_target" -> totals.total_registrations
      [] t = "effectiveness_target_pct" -> totals.effectiveness_pct

RECURSIVE GapSum(_, _, _)
\* the sum over the targets ts of |actual - target| / target, as <<num, den>>
GapSum(ts, totals, criteria) ==
    IF ts = {}
    THEN <<0, 1>>
    ELSE LET t == CHOOSE x \in ts : TRUE
             target == criteria[t][1]
             actual == ActualOf(totals, t)
             gap == IF actual >= target THEN actual - target ELSE target - actual
             rest == GapSum(ts \ {t}, totals, criteria)
         IN  <<rest[1] * target + gap * rest[2], rest[2] * target>>

\* C18: for a criteria row with at least one positive target and totals as
\* personTotals produces them, normalizedDistance completes without error
\* and returns the sum of |actual - target| / target over the positive
\* targets divided by their number.
C18_DistanceIsMeanGap ==
    (/\ resp.op = "normalized_distance" /\ resp.criteria_row # <<>>
     /\ PositiveTargets(resp.criteria_row[1]) # {})
        => LET ts == PositiveTargets(resp.criteria_row[1])
               sum == GapSum(ts, resp.totals, resp.criteria_row[1])
           IN  /\ resp.result.type = "float"
               /\ resp.result.num * sum[2] * Cardinality(ts) = sum[1] * resp.result.den

(***************************************************************************)
(* Properties of the leaderboard.                                          *)
(***************************************************************************)
\* the sessions a leaderboard request counts for a person
Counting(r, p) == Qualifying(p, r.date_from, r.date_to)

\* the value a person is ranked by, from the person's sessions
MetricOf(r, p) ==
    LET guests == SessionSum(Counting(r, p), "guests_count")
        registrations == SessionSum(Counting(r, p), "registrations_count")
    IN  CASE r.metric = "guests" -> guests
          [] r.metric = "registrations" -> registrations
          [] r.metric = "effectiveness" -> compute_effectiveness(guests, registrations)

\* the people a leaderboard request ranks
Eligible(r) ==
    {p \in PersonIds :
        /\ Counting(r, p) # {}
        /\ r.region # "" => Region[p] = r.region
        /\ r.metric = "effectiveness" => SessionSum(Counting(r, p), "guests_count") > 0}

\* C19: for each valid metric the leaderboard is the first `limit` entries of
\* the eligible groups in descending order of the metric: its entries are
\* distinct eligible people, min(limit, number of eligible) of them, sorted
\* descending, and no eligible person left out has a strictly higher value
\* than one listed.
C19_LeaderboardTopLimit ==
    (resp.op = "leaderboard" /\ resp.metric \in {"registrations", "guests", "effectiveness"})
        => LET rows == resp.result.rows
               listed == {rows[i].person_id : i \in 1..Len(rows)}
           IN  /\ resp.result.status = 200
               /\ listed \subseteq Eligible(resp)
               /\ Cardinality(listed) = Len(rows)
               /\ Len(rows) = IF resp.limit < Cardinality(Eligible(resp))
                               THEN resp.limit ELSE Cardinality(Eligible(resp))
               /\ \A i \in 1..(Len(rows) - 1) :
                    MetricOf(resp, rows[i].person_id) >= MetricOf(resp, rows[i + 1].person_id)
               /\ \A p \in Eligible(resp) \ listed : \A q \in listed :
                    MetricOf(resp, p) <= MetricOf(resp, q)

\* C20: the leaderboard for metric effectiveness never lists a person whose
\* guests summed over the filtered sessions are 0.
C20_NoZeroGuestsInEffectiveness ==
    (resp.op = "leaderboard" /\ resp.metric = "effectiveness")
        => \A i \in 1..Len(resp.result.rows) :
            SessionSum(Counting(resp, resp.result.rows[i].person_id), "guests_count") > 0

\* L2 leads only a session without guests and L1 one with guests: of the two,
\* the effectiveness leaderboard with room for both lists L1 alone
C20_Witness ==
    /\ resp.op = "leaderboard" /\ resp.metric = "effectiveness" /\ resp.limit = 2
    /\ resp.region = "" /\ resp.date_from = <<>> /\ resp.date_to = <<>>
    /\ Counting(resp, "L2") # {}
    /\ SessionSum(Counting(resp, "L2"), "guests_count") = 0
    /\ Len(resp.result.rows) = 1
    /\ resp.result.rows[1].person_id = "L1"

\* C21: the leaderboard called with a metric other than registrations,
\* guests and effectiveness answers with an error (400) and no ranking,
\* whatever the tables hold.
C21_InvalidMetricIsError ==
    (resp.op = "leaderboard" /\ resp.metric \notin {"registrations", "guests", "effectiveness"})
        => /\ resp.result.status = 400
           /\ resp.result.key = "error"
           /\ resp.result.rows = <<>>

\* metric `sessions` was asked for while L1 and L2 lead sessions: an error
C21_Witness ==
    /\ resp.op = "leaderboard" /\ resp.metric = "sessions"
    /\ resp.region = "" /\ resp.date_from = <<>> /\ resp.date_to = <<>>
    /\ Counting(resp, "L1") # {} /\ Counting(resp, "L2") # {}
    /\ resp.result.status = 400

(***************************************************************************)
(* Properties of close_to_target.                                          *)
(***************************************************************************)
\* the Criteria rows scoped to a person, and the global ones
OwnCriteria(p) == {c \in criteria_table : c.person_id = p}

GlobalCriteria == {c \in criteria_table : c.person_id = NULL}

\* the person appears in the response
Listed(r, p) == \E i \in 1..Len(r.result.people) : r.result.people[i].person_id = p

\* C22: close_to_target uses for a leader a Criteria row scoped to that
\* leader whenever one exists, a global row only when none is scoped to the
\* leader, and leaves out a leader with neither.
C22_PersonCriteriaPreferred ==
    resp.op = "close_to_target"
        => \A p \in RegionLeaders(resp.region) :
            /\ OwnCriteria(p) # {}
                    => resp.result.used[p] \in {<<c>> : c \in OwnCriteria(p)}
            /\ (OwnCriteria(p) = {} /\ GlobalCriteria # {})
                    => resp.result.used[p] \in {<<c>> : c \in GlobalCriteria}
            /\ (OwnCriteria(p) = {} /\ GlobalCriteria = {})
                    => (resp.result.used[p] = <<>> /\ ~Listed(resp, p))

\* C23: when several Criteria rows are scoped to the same person and one of
\* them is used for that person, it is the one with the greatest created_at.
C23_MostRecentCriteria ==
    resp.op = "close_to_target"
        => \A p \in RegionLeaders(resp.region) :
            (/\ Cardinality(OwnCriteria(p)) > 1
             /\ resp.result.used[p] \in {<<c>> : c \in OwnCriteria(p)})
                => \A c \in OwnCriteria(p) : c.created_at <= resp.result.used[p][1].created_at

\* the rows that apply to a person: the most recent of the person's own
\* rows, or the global rows when the person has none
Applicable(p) ==
    IF OwnCriteria(p) # {}
    THEN {c \in OwnCriteria(p) : \A d \in OwnCriteria(p) : d.created_at <= c.created_at}
    ELSE GlobalCriteria

\* the targets of a Criteria row
TargetsOf(c) ==
    [guests_target |-> c.guests_target, registrations_target |-> c.registrations_target,
     effectiveness_target_pct |-> c.effectiveness_target_pct]

\* the distance of a person to an applicable row with a positive target, as <<num, den>>
DistanceTo(p, c) ==
    LET ts == PositiveTargets(TargetsOf(c))
        sum == GapSum(ts, compute_person_totals(p, <<>>, <<>>), TargetsOf(c))
    IN  <<sum[1], sum[2] * Cardinality(ts)>>

\* C24: close_to_target(limit) returns the leaders (of the requested region)
\* whose normalizedDistance to their applicable Criteria is a value, in
\* ascending order of that distance, cut to the first `limit`; a leader
\* without a value is never returned.
C24_CloseToTarget ==
    resp.op = "close_to_target"
        => \E app \in [RegionLeaders(resp.region) -> {<<>>} \cup {<<c>> : c \in criteria_table}] :
            LET valued == {p \in RegionLeaders(resp.region) :
                            app[p] # <<>> /\ PositiveTargets(TargetsOf(app[p][1])) # {}}
                rows == resp.result.people
                listed == {rows[i].person_id : i \in 1..Len(rows)}
                leq(p, q) == DistanceTo(p, app[p][1])[1] * DistanceTo(q, app[q][1])[2]
                                <= DistanceTo(q, app[q][1])[1] * DistanceTo(p, app[p][1])[2]
            IN  /\ \A p \in RegionLeaders(resp.region) :
                    app[p] \in (IF Applicable(p) = {} THEN {<<>>}
                               ELSE {<<c>> : c \in Applicable(p)})
                /\ resp.result.status = 200
                /\ listed \subseteq valued
                /\ Cardinality(listed) = Len(rows)
                /\ Len(rows) = IF resp.limit < Cardinality(valued)
                                THEN resp.limit ELSE Cardinality(valued)
                /\ \A i \in 1..(Len(rows) - 1) : leq(rows[i].person_id, rows[i + 1].person_id)
                /\ \A p \in valued \ listed : \A q \in listed : leq(q, p)

(***************************************************************************)
(* Properties of the audit trail and of the authoritative rows.            *)
(***************************************************************************)
\* C25: a failure of the audit write never affects the primary operation:
\* whenever a staff approval or rejection committed its status change, the
\* caller receives the success result, whether or not the audit row was
\* written.
C25_AuditFailureIsSwallowed ==
    [][(/\ resp'.op \in {"approve", "reject"} /\ resp'.endpoint = "staff"
        /\ temporary_session' # temporary_session)
            => resp'.result = "ok"]_vars

\* C26: the room_captain of every SessionMetrics row is absent or a Person
\* whose role is LEADER, for rows from approvals and from direct registration.
C26_RoomCaptainIsLeader ==
    \A m \in session_metrics :
        m.room_captain_id = NULL \/ Person[m.room_captain_id].role = "leader"

\* C27: every SessionMetrics row has 0 <= registrations_count <= guests_count,
\* whether an approval or a direct registration created it, and a form whose
\* counts violate this is refused and persists nothing, staged or
\* authoritative.
C27_CountsInvariant ==
    [][/\ \A m \in session_metrics' :
            0 <= m.registrations_count /\ m.registrations_count <= m.guests_count
       /\ (/\ resp'.op = "submit"
           /\ ~(/\ 0 <= resp'.form.registrations_count
                /\ resp'.form.registrations_count <= resp'.form.guests_count))
            => /\ UNCHANGED tables
               /\ resp'.result \notin {"ok", "no_action"}]_vars

\* a session registered by staff and one approved exist, and a leader's form
\* with more registrations than guests has just been refused
C27_Witness ==
    /\ resp.op = "submit" /\ resp.result = "ValidationError"
    /\ Person[resp.actor].role = "leader"
    /\ resp.form.registrations_count > resp.form.guests_count
    /\ \E i, j \in DOMAIN session : session_source[i] = 0 /\ session_source[j] # 0
    /\ Cardinality(session_metrics) = Len(session)

LeaderRowsOf(sid) ==
    {p \in participation : p.session_id = sid /\ p.role = "LEADER"}

\* C28: every Session has exactly one Participation of role LEADER, whether
\* an approval or a direct registration created the Session.
C28_ExactlyOneLeader ==
    \A sid \in DOMAIN session : Cardinality(LeaderRowsOf(sid)) = 1

\* a session registered by staff and a session created by an approval, each
\* with other participants beside its leader
C28_Witness ==
    /\ \E i, j \in DOMAIN session : session_source[i] = 0 /\ session_source[j] # 0
    /\ \A sid \in DOMAIN session :
            /\ LeaderRowsOf(sid) # {}
            /\ \E p \in participation :
                    p.session_id = sid /\ p.role = "REGISTRATION_EXPERT"

\* C29: every Participation of role LEADER belongs to a Person whose role is
\* LEADER, after any sequence of submissions, approvals and direct
\* registrations.
C29_LeaderRowsAreLeaders ==
    \A p \in participation :
        p.role = "LEADER" => Person[p.person_id].role = "leader"

\* C30: for each valid metric the leaderboard page shows exactly the rows
\* the leaderboard API computed for the same region, date range and metric.
C30_PageShowsApiRows ==
    (/\ resp.op = "leaderboard_page"
     /\ resp.metric \in {"registrations", "guests", "effectiveness"})
        => resp.leaderboard_data = resp.result.rows

====
